---- MODULE Spec2Model ----
(***************************************************************************)
(* Model of the SPY wheel screener (src/app.py): screen_stocks fans        *)
(* process_ticker out over the ticker universe on a ThreadPoolExecutor,    *)
(* collects the results with as_completed, and ranks the aggregate by      *)
(* market capitalisation.                                                  *)
(*                                                                         *)
(* Units.  Prices, strikes and bids are integers in mills (1/1000 $);      *)
(* market caps are integers in millions of dollars; displayed (rounded)    *)
(* values are in cents, resp. hundredths of a billion.  Dates are day      *)
(* numbers.  A NaN cell of the provider's put table is the value NaN.      *)
(***************************************************************************)
EXTENDS Integers, Sequences, FiniteSets, TLC

VARIABLES
    tickers,    \* the universe handed to screen_stocks (sequence of symbols)
    provider,   \* symbol -> what the quote/earnings providers answer for it
    hangs,      \* symbols whose provider call never returns
    today,      \* datetime.date.today()
    pc,         \* screen_stocks' position: "submit", "collect", "done"
    submitted,  \* number of tickers already handed to executor.submit
    state,      \* per future: "new", "queued", "running", "finished", "yielded"
    results,    \* per future: the value process_ticker returned
    calls,      \* provider calls made so far: <<symbol, call>>
    screened,   \* the accumulated rows
    completed,  \* the completed counter
    progress,   \* numerator last shown by the progress bar (out of total)
    df          \* the returned frame (rows in ranked order)

vars == <<tickers, provider, hangs, today, pc, submitted, state, results,
          calls, screened, completed, progress, df>>

--------------------------------------------------------------------------
(* Bounds of the model *)

MaxTickers == 2
MaxContracts == 6
PoolSize == 11
MaxFree == 2

--------------------------------------------------------------------------
(* Program constants *)

PRICE_MIN == 5
PRICE_MAX == 50
MARKET_CAP_MIN_B == 1
DAYS_OUT == 0
FILTER_EARNINGS == TRUE
MIN_VOL == 10
MIN_OI == 100
max_workers == 10
EARNINGS_WINDOW == 14
HEAD == 3

NaN == -1
None == -2
Malformed == -3

--------------------------------------------------------------------------
(* Arithmetic helpers *)

Abs(x) == IF x < 0 THEN -x ELSE x

\* round(): to the nearest multiple of d, ties to even
RoundDiv(x, d) ==
    LET q == x \div d
        r == x % d
    IN  IF 2 * r < d THEN q
        ELSE IF 2 * r > d THEN q + 1
        ELSE IF q % 2 = 0 THEN q ELSE q + 1

\* IEEE comparison: any comparison with NaN is false
LessThan(a, b) == a # NaN /\ b # NaN /\ a < b

\* pd.notna(x) ? x : 0
NotNaOrZero(x) == IF x # NaN THEN x ELSE 0

total == Len(tickers)


--------------------------------------------------------------------------
(* What the providers can answer.  A put contract is a row of            *)
(* opt_chain.puts; a profile is everything the providers hold for one    *)
(* symbol, and which of its calls (if any) raises.                       *)

Put(k, b, v, oi) == [strike |-> k, bid |-> b, volume |-> v, openInterest |-> oi]

Profile(price, cap, iv, earn, nexp, chain, f) ==
    [currentPrice |-> price, marketCap |-> cap, impliedVolatility |-> iv,
     earnings |-> earn, expirations |-> nexp, puts |-> chain, fault |-> f]

Today == {20}

OnePut == << Put(18000, 400, 50, 200) >>

Profiles ==
    { \* passes every gate, one liquid OTM put; cap rounds to 5.00
      Profile(20000, 4996, 254, None, 2, OnePut, "none"),
      \* cap rounds to 5.00 too; closest OTM put illiquid, next one exactly at
      \* the thresholds, one put in the money; earnings in 15 days
      Profile(30004, 5004, None, 35, 1,
              << Put(31000, 900, 500, 900), Put(28000, 350, 10, 100),
                 Put(29000, 600, 5, 50) >>, "none"),
      \* price at the upper bound, four liquid OTM puts listed out of order
      \* and one put at the money; earnings yesterday
      Profile(50000, 50000, 305, 19, 1,
              << Put(40000, 100, 20, 300), Put(49000, 900, 70, 700),
                 Put(50000, 950, 80, 800), Put(45000, 500, 40, 400),
                 Put(47500, 700, 60, 600) >>, "none"),
      \* NaN volume / NaN open interest on otherwise quoted puts; cap at the bound
      Profile(10000, 1000, None, None, 1,
              << Put(9000, 105, NaN, 150), Put(8000, 55, 30, NaN) >>, "none"),
      \* earnings today, and in 14 days: inside the window
      Profile(20000, 4996, 254, 20, 2, OnePut, "none"),
      Profile(20000, 7000, 254, 34, 2, OnePut, "none"),
      \* the earnings provider answers something that is no date
      Profile(20000, 4996, 254, Malformed, 2, OnePut, "none"),
      \* price below the range; cap below the minimum; price missing
      Profile(4999, 5000, 254, None, 1, OnePut, "none"),
      Profile(20000, 999, 254, None, 1, OnePut, "none"),
      Profile(0, 5000, 254, None, 1, OnePut, "none"),
      \* no expirations; empty chain
      Profile(20000, 4996, 254, None, 0, OnePut, "none"),
      Profile(20000, 4996, 254, None, 1, << >>, "none"),
      \* one provider call raises
      Profile(20000, 4996, 254, None, 2, OnePut, "info"),
      Profile(20000, 4996, 254, 20, 2, OnePut, "earnings"),
      Profile(20000, 4996, 254, None, 2, OnePut, "options"),
      Profile(20000, 4996, 254, None, 2, OnePut, "chain") }

\* The pool specification's symbols all carry this answer
PoolProfile == Profile(20000, 4996, 254, None, 2, OnePut, "none")

--------------------------------------------------------------------------
(* get_earnings_date: every exception is swallowed and None returned *)

get_earnings_date(p) ==
    IF p.fault = "earnings" THEN None ELSE p.earnings

(* days_to_earnings inside the exclusion window *)
InEarningsWindowOpen(days) == 0 < days /\ days < EARNINGS_WINDOW
InEarningsWindow(days) == 0 <= days /\ days <= EARNINGS_WINDOW

(* the price / market-cap gate of process_ticker; cap_b = market_cap / 1e9 *)
PassesFundamentals(price, market_cap) ==
    /\ PRICE_MIN * 1000 <= price
    /\ price <= PRICE_MAX * 1000
    /\ market_cap >= MARKET_CAP_MIN_B * 1000

(* puts[puts["strike"] < price] *)
OutOfTheMoneyOrAt(put, price) == put.strike # NaN /\ put.strike <= price
OutOfTheMoney(put, price) == LessThan(put.strike, price)

(* the liquidity test that lets a contract through *)
Liquid(put) ==
    ~ (LessThan(put.volume, MIN_VOL) \/ LessThan(put.openInterest, MIN_OI))

(* delta_estimate = abs((strike - price) / price); price > 0 here, so the
   order of the estimates is the order of the absolute distances *)
delta_estimate(put, price) == Abs(put.strike - price)

RECURSIVE otm_puts(_, _, _)
otm_puts(s, price, i) ==
    IF i > Len(s) THEN << >>
    ELSE IF OutOfTheMoney(s[i], price)
         THEN << s[i] >> \o otm_puts(s, price, i + 1)
         ELSE otm_puts(s, price, i + 1)

(* sort_values(by="delta_estimate"): ascending, earlier rows first on ties *)
RECURSIVE sort_by_delta(_, _)
sort_by_delta(s, price) ==
    IF s = << >> THEN << >>
    ELSE LET m == CHOOSE i \in 1..Len(s) :
                    \A j \in 1..Len(s) :
                        \/ delta_estimate(s[i], price) < delta_estimate(s[j], price)
                        \/ /\ delta_estimate(s[i], price) = delta_estimate(s[j], price)
                           /\ i <= j
             rest == [k \in 1..(Len(s) - 1) |-> IF k < m THEN s[k] ELSE s[k + 1]]
         IN  << s[m] >> \o sort_by_delta(rest, price)

(* .head(n) *)
head(s, n) == SubSeq(s, 1, IF Len(s) < n THEN Len(s) ELSE n)

near_25_delta_puts(puts, price) ==
    head(sort_by_delta(otm_puts(puts, price, 1), price), HEAD)

(* one row of the result *)
Row(ticker, p, put, earnings_date) ==
    [Ticker |-> ticker,
     Price |-> RoundDiv(p.currentPrice, 10),
     MarketCap |-> RoundDiv(p.marketCap, 10),
     IV |-> IF p.impliedVolatility # None
            THEN RoundDiv(p.impliedVolatility, 10) ELSE None,
     PutStrike |-> put.strike,
     PutBid |-> RoundDiv(put.bid, 10),
     PremiumYield |-> IF p.currentPrice > 0
                      THEN RoundDiv(put.bid * 10000, p.currentPrice) ELSE 0,
     Volume |-> NotNaOrZero(put.volume),
     OpenInterest |-> NotNaOrZero(put.openInterest),
     EarningsDate |-> earnings_date]

RECURSIVE Rows(_, _, _, _, _)
Rows(ticker, p, sel, earnings_date, i) ==
    IF i > Len(sel) THEN << >>
    ELSE (IF Liquid(sel[i]) THEN << Row(ticker, p, sel[i], earnings_date) >>
          ELSE << >>)
         \o Rows(ticker, p, sel, earnings_date, i + 1)

(* What one call of process_ticker comes to: the value returned (None or a
   list of rows), how it ended, and the provider calls it made. *)
Outcome(none, rows, how, made) ==
    [none |-> none, rows |-> rows, how |-> how, calls |-> made]

process_ticker(ticker, p, day) ==
    IF p.fault = "info" THEN Outcome(TRUE, << >>, "fault", {"info"})
    ELSE
    LET price == p.currentPrice
        earnings_date == get_earnings_date(p)
        c1 == {"info", "earnings"}
        c2 == c1 \cup {"options"}
        c3 == c2 \cup {"option_chain"}
    IN  IF FILTER_EARNINGS /\ earnings_date # None /\ earnings_date = Malformed
        THEN Outcome(TRUE, << >>, "fault", c1)
        ELSE IF FILTER_EARNINGS /\ earnings_date # None
                /\ InEarningsWindow(earnings_date - day)
        THEN Outcome(TRUE, << >>, "skip", c1)
        ELSE IF ~ PassesFundamentals(price, p.marketCap)
        THEN Outcome(TRUE, << >>, "skip", c1)
        ELSE IF p.fault = "options"
        THEN Outcome(TRUE, << >>, "fault", c2)
        ELSE IF p.expirations = 0 \/ p.expirations <= DAYS_OUT
        THEN Outcome(TRUE, << >>, "skip", c2)
        ELSE IF p.fault = "chain"
        THEN Outcome(TRUE, << >>, "fault", c3)
        ELSE IF p.puts = << >>
        THEN Outcome(TRUE, << >>, "skip", c3)
        ELSE Outcome(FALSE,
                     Rows(ticker, p, near_25_delta_puts(p.puts, price),
                          earnings_date, 1),
                     "rows", c3)

\* `if result:` -- None and the empty list are both falsy
Truthy(r) == ~ r.none /\ r.rows # << >>


--------------------------------------------------------------------------
(* df.sort_values(by="Market Cap ($B)", ascending=False).  The call names  *)
(* no sorting algorithm, so pandas sorts with its default, quicksort,      *)
(* which is not stable: rows with equal keys may come out in any order.    *)
(* The operator is the set of frames the call can return.                  *)

RECURSIVE orderings(_, _)
orderings(rows, S) ==
    IF S = {} THEN { << >> }
    ELSE LET top == { i \in S : \A j \in S : rows[i].MarketCap >= rows[j].MarketCap }
         IN  UNION { { << rows[i] >> \o rest : rest \in orderings(rows, S \ {i}) }
                     : i \in top }

sort_values(rows) == orderings(rows, DOMAIN rows)

(* the frames screen_stocks can return for the accumulated rows *)
ranked(rows) == IF rows = << >> THEN { << >> } ELSE sort_values(rows)

--------------------------------------------------------------------------
(* The executor and the collecting loop *)

NoResult == Outcome(TRUE, << >>, "pending", {})

Futures == 1..total

InFlight == { i \in Futures : state[i] = "running" }

\* a worker thread is idle or may still be spawned
WorkerFreeSingle == Cardinality(InFlight) < 1
WorkerFreeUnbounded == TRUE
WorkerFree == Cardinality(InFlight) < max_workers

\* completed += 1
CountTruthy(c, r) == IF Truthy(r) THEN c + 1 ELSE c
NextCompleted(c, r) == c + 1

TotalContracts(prov, n) ==
    LET RECURSIVE Sum(_)
        Sum(i) == IF i = 0 THEN 0 ELSE Len(prov[i].puts) + Sum(i - 1)
    IN  Sum(n)

Start0(n) ==
    /\ tickers = [i \in 1..n |-> i]
    /\ today \in Today
    /\ pc = "submit"
    /\ submitted = 0
    /\ state = [i \in 1..n |-> "new"]
    /\ results = [i \in 1..n |-> NoResult]
    /\ calls = {}
    /\ screened = << >>
    /\ completed = 0
    /\ progress = 0
    /\ df = << >>

Init ==
    \E n \in 0..MaxTickers :
        /\ provider \in [1..n -> Profiles]
        /\ TotalContracts(provider, n) <= MaxContracts
        /\ hangs = {}
        /\ Start0(n)

PoolInit ==
    \E n \in 1..PoolSize :
        /\ provider = [i \in 1..n |-> PoolProfile]
        /\ hangs \in { H \in SUBSET (1..n) : n - Cardinality(H) <= MaxFree }
        /\ Start0(n)

(* futures = {executor.submit(process_ticker, t): t for t in tickers} *)
Submit ==
    /\ pc = "submit"
    /\ submitted < total
    /\ submitted' = submitted + 1
    /\ state' = [state EXCEPT ![submitted + 1] = "queued"]
    /\ UNCHANGED <<tickers, provider, hangs, today, pc, results, calls,
                   screened, completed, progress, df>>

(* for future in as_completed(futures): the loop is entered *)
AsCompleted ==
    /\ pc = "submit"
    /\ submitted = total
    /\ pc' = "collect"
    /\ UNCHANGED <<tickers, provider, hangs, today, submitted, state, results,
                   calls, screened, completed, progress, df>>

(* a worker thread takes the oldest queued work item *)
Start(i) ==
    /\ state[i] = "queued"
    /\ \A j \in 1..(i - 1) : state[j] # "queued"
    /\ WorkerFree
    /\ state' = [state EXCEPT ![i] = "running"]
    /\ UNCHANGED <<tickers, provider, hangs, today, pc, submitted, results,
                   calls, screened, completed, progress, df>>

(* process_ticker(ticker) returns on its worker thread *)
Finish(i) ==
    /\ state[i] = "running"
    /\ i \notin hangs
    /\ LET r == process_ticker(tickers[i], provider[tickers[i]], today)
       IN  /\ results' = [results EXCEPT ![i] = r]
           /\ calls' = calls \cup { <<tickers[i], c>> : c \in r.calls }
    /\ state' = [state EXCEPT ![i] = "finished"]
    /\ UNCHANGED <<tickers, provider, hangs, today, pc, submitted,
                   screened, completed, progress, df>>

(* one iteration of the as_completed loop, for a future that is done *)
Yield(i) ==
    /\ pc = "collect"
    /\ state[i] = "finished"
    /\ screened' = IF Truthy(results[i])
                   THEN screened \o results[i].rows ELSE screened
    /\ completed' = NextCompleted(completed, results[i])
    /\ progress' = completed'
    /\ state' = [state EXCEPT ![i] = "yielded"]
    /\ UNCHANGED <<tickers, provider, hangs, today, pc, submitted, results,
                   calls, df>>

(* the loop is exhausted: progress.empty(), build, rank and return the frame *)
Return ==
    /\ pc = "collect"
    /\ \A i \in Futures : state[i] = "yielded"
    /\ progress' = None
    /\ df' \in ranked(screened)
    /\ pc' = "done"
    /\ UNCHANGED <<tickers, provider, hangs, today, submitted, state, results,
                   calls, screened, completed>>

Next ==
    \/ Submit
    \/ AsCompleted
    \/ \E i \in Futures : Start(i)
    \/ \E i \in Futures : Finish(i)
    \/ \E i \in Futures : Yield(i)
    \/ Return

Spec == Init /\ [][Next]_vars

PoolSpec == PoolInit /\ [][Next]_vars

\* Threads keep being scheduled: while the main thread or a worker can take a
\* step, a step is eventually taken.  Every step moves a future forward or the
\* main thread on, so no step can be postponed for ever by the others.
Fairness == WF_vars(Next)

FairPoolSpec == PoolSpec /\ Fairness


--------------------------------------------------------------------------
(* Vocabulary of the properties *)

Done == pc = "done"

\* the rows of a frame that carry ticker t, as a set
RowsOf(frame, t) == { frame[k] : k \in { j \in DOMAIN frame : frame[j].Ticker = t } }

Range(s) == { s[k] : k \in DOMAIN s }

\* the rows symbol t produces when evaluated on its own
OwnRows(t) == process_ticker(t, provider[t], today).rows

\* some provider call of symbol t raises
Faulting(t) == provider[t].fault # "none"

\* process_ticker ended in its except branch for future i
Faulted(i) == results[i].how = "fault"

SortedByCapDescending(frame) ==
    \A a, b \in DOMAIN frame : a < b => frame[a].MarketCap >= frame[b].MarketCap

\* the stable ranking: descending market cap, ties in input order
RECURSIVE StableRank(_)
StableRank(rows) ==
    IF rows = << >> THEN << >>
    ELSE LET m == CHOOSE i \in DOMAIN rows :
                    \A j \in DOMAIN rows :
                        \/ rows[i].MarketCap > rows[j].MarketCap
                        \/ rows[i].MarketCap = rows[j].MarketCap /\ i <= j
             rest == [k \in 1..(Len(rows) - 1) |->
                          IF k < m THEN rows[k] ELSE rows[k + 1]]
         IN  << rows[m] >> \o StableRank(rest)

\* the rows of all symbols, accumulated in submission order
RECURSIVE SubmissionOrderRows(_)
SubmissionOrderRows(n) ==
    IF n = 0 THEN << >>
    ELSE SubmissionOrderRows(n - 1) \o OwnRows(tickers[n])

--------------------------------------------------------------------------
(* C1: fault isolation.  In a completed run, every symbol one of whose     *)
(* provider calls (info, earnings lookup, options, option_chain) raises    *)
(* contributes zero rows, and every other symbol contributes exactly the   *)
(* rows it produces on its own.                                            *)
C1_FaultIsolation ==
    Done => \A i \in Futures :
                /\ Faulting(tickers[i]) => RowsOf(df, tickers[i]) = {}
                /\ ~ Faulting(tickers[i]) =>
                       RowsOf(df, tickers[i]) = Range(OwnRows(tickers[i]))

(* C2: what a completed run returns tells a run in which a symbol faulted  *)
(* from a run with zero matches.  A run with zero matches and no fault     *)
(* returns the empty frame and nothing else, so a run in which a symbol    *)
(* faulted must return something different.                                *)
C2_FaultVisibleInResult ==
    (Done /\ \E i \in Futures : Faulted(i)) => df # << >>

(* C3: every completion order yields the same ranked frame, ties in market *)
(* cap included.  Completion in submission order is one possible order, so *)
(* every run must return what that one returns; stated for the runs in     *)
(* which the sort kept ties in accumulation order, so that a violation is  *)
(* due to the completion order alone.                                      *)
C3_OrderIndependent ==
    (Done /\ df = StableRank(screened))
        => df = StableRank(SubmissionOrderRows(total))

(* C4: the completed count starts at 0, never decreases, grows by exactly  *)
(* one for each finished evaluation the loop takes (rows, skip or fault),  *)
(* never exceeds the total, is what the progress bar shows, and equals the *)
(* total when the run completes.                                           *)
C4_Progress ==
    /\ completed = 0
    /\ [][ /\ completed' \in {completed, completed + 1}
           /\ completed' = completed + 1 <=>
                \E i \in Futures : state[i] = "finished" /\ state'[i] = "yielded"
           /\ completed' <= total
           /\ pc' = "collect" => progress' = completed' ]_vars
    /\ [](Done => completed = total)

\* the second symbol's fault is counted while the first is still evaluated
C4_Witness ==
    /\ total = 2
    /\ state[2] = "yielded" /\ Faulted(2)
    /\ state[1] = "running"
    /\ completed = 1 /\ progress = 1

(* C5: at most max_workers evaluations are in flight at any time; further  *)
(* symbols stay queued.                                                    *)
C5_BoundedParallelism == Cardinality(InFlight) <= max_workers

C5_Witness ==
    /\ Cardinality(InFlight) = max_workers
    /\ \E i \in Futures : state[i] = "queued"

\* every symbol that does not hang has been evaluated and counted
AllOthersCounted ==
    /\ \A i \in Futures : i \notin hangs => state[i] = "yielded"
    /\ completed = Cardinality(Futures \ hangs)
    /\ pc = "collect" => progress = completed

C7_StableRanking ==
    Done => SortedByCapDescending(df) /\ df = StableRank(screened)

(* C8: every emitted row has Volume >= MIN_VOL and Open Interest >= MIN_OI,*)
(* a missing volume or open interest counting as 0.                        *)
C8_LiquidityGate ==
    \A k \in DOMAIN screened :
        screened[k].Volume >= MIN_VOL /\ screened[k].OpenInterest >= MIN_OI

(* C9: a ticker whose earnings date, as looked up, lies 0 to 14 days from  *)
(* today yields no rows, and neither its expirations nor its option chain  *)
(* are fetched.                                                            *)
EarningsInWindow(t) ==
    LET d == get_earnings_date(provider[t])
    IN  d # None /\ d # Malformed /\ 0 <= d - today /\ d - today <= 14

C9_EarningsGate ==
    \A i \in Futures :
        EarningsInWindow(tickers[i]) =>
            /\ results[i].rows = << >>
            /\ RowsOf(screened, tickers[i]) = {}
            /\ RowsOf(df, tickers[i]) = {}
            /\ <<tickers[i], "options">> \notin calls
            /\ <<tickers[i], "option_chain">> \notin calls

\* a ticker reporting in exactly 14 days, passing the price/cap gate and
\* holding a liquid OTM put, has been evaluated and the run is complete
C9_Witness ==
    /\ Done
    /\ \E i \in Futures :
          /\ provider[tickers[i]].earnings - today = 14
          /\ provider[tickers[i]].fault = "none"
          /\ PassesFundamentals(provider[tickers[i]].currentPrice,
                                provider[tickers[i]].marketCap)
          /\ \E k \in DOMAIN provider[tickers[i]].puts :
                 /\ OutOfTheMoney(provider[tickers[i]].puts[k],
                                  provider[tickers[i]].currentPrice)
                 /\ Liquid(provider[tickers[i]].puts[k])
          /\ <<tickers[i], "earnings">> \in calls

(* C10: every returned row has its strike strictly below its ticker's      *)
(* current price and a ticker of the universe, and no ticker has more than *)
(* three rows.                                                             *)
C10_OtmAndCount ==
    /\ \A k \in DOMAIN df :
          /\ df[k].Ticker \in Range(tickers)
          /\ df[k].PutStrike < provider[df[k].Ticker].currentPrice
    /\ \A t \in Range(tickers) : Cardinality(RowsOf(df, t)) <= 3

\* a ticker with four liquid OTM puts and one put at the money has three rows
C10_Witness ==
    /\ Done
    /\ \E t \in Range(tickers) :
          /\ Cardinality(RowsOf(df, t)) = 3
          /\ Cardinality({ k \in DOMAIN provider[t].puts :
                 provider[t].puts[k].strike < provider[t].currentPrice }) > 3
          /\ \E k \in DOMAIN provider[t].puts :
                 provider[t].puts[k].strike = provider[t].currentPrice

--------------------------------------------------------------------------
(* Supplementary invariants of Spec: the parts of C3 and C7 that the code  *)
(* does satisfy.                                                           *)

\* the set of returned rows does not depend on the completion order
RowSetOrderIndependent == Done => Range(df) = Range(SubmissionOrderRows(total))

\* the returned frame is in descending market-cap order and holds exactly
\* the accumulated rows; an empty aggregate gives the empty frame
RankedDescending ==
    Done => /\ SortedByCapDescending(df)
            /\ Len(df) = Len(screened)
            /\ Range(df) = Range(screened)

====
